---- MODULE Spec2Model ----
(***************************************************************************)
(* Model of contract_event_recorders.py: the handlers that reconcile       *)
(* Trade, Deposit, Withdraw and Cancel events of the exchange contract     *)
(* into the trades, transfers and orders tables.                           *)
(*                                                                         *)
(* Each handler is a coroutine; every acquisition of a connection, every   *)
(* `await` of a store statement and every chain call is one step, so       *)
(* handlers interleave between them.  A store statement is atomic (one     *)
(* SQL statement).                                                         *)
(***************************************************************************)
EXTENDS Integers, Sequences, FiniteSets, TLC

\* ------------------------------------------------------------------------
\* Bounds of the model
\* ------------------------------------------------------------------------
\* number of event handlers that may run (each handles one delivered event)
NumHandlers == 2
\* the chain's head block never goes beyond MaxBlock
MaxBlock == 8
\* longest sequence of applyFill calls in SpecFill
MaxFills == 3

Handlers == 1..NumHandlers

\* Python's None
None == "None"

\* ------------------------------------------------------------------------
\* Encoding helpers (web3 / utils)
\* ------------------------------------------------------------------------
ZERO_ADDR == "0x00"

\* Web3.toBytes(hexstr=...): hex text to bytes, case-insensitive.
\* Bytes are modelled by the number they spell; -1 stands for no bytes at
\* all: the argument is not hex text and the call raises.
ToBytes(hexstr) ==
    CASE hexstr = "0x00" -> 0
      [] hexstr \in {"0xa1", "0xA1"} -> 161
      [] hexstr \in {"0xb2", "0xB2"} -> 178
      [] hexstr \in {"0xc3", "0xC3"} -> 195
      [] hexstr \in {"0xabc", "0xABC", "0x0abc", "0x0ABC"} -> 2748
      [] hexstr \in {"0xdef", "0xDEF", "0x0def", "0x0DEF"} -> 3567
      [] OTHER -> -1

\* Web3.toBytes(hexstr=...) raises: a ValueError for text that is not hex, a
\* TypeError for None; reading a key the event lacks is a KeyError before it
ToBytesRaises(hexstr) == ToBytes(hexstr) = -1

\* Web3.toHex(bytes): bytes to lower-case hex text, two digits per byte.
ToHex(bytes) ==
    CASE bytes = 0 -> "0x00"
      [] bytes = 161 -> "0xa1"
      [] bytes = 178 -> "0xb2"
      [] bytes = 195 -> "0xc3"
      [] bytes = 2748 -> "0x0abc"
      [] bytes = 3567 -> "0x0def"

\* Web3.toBytes(text=...): the UTF-8 bytes of a text.
TextToBytes(text) == <<"utf8", text>>

\* A raw integer field of an event: a Python int, or a hex quantity string.
RawInt(n) == [tag |-> "int", n |-> n, s |-> ""]
RawHex(s) == [tag |-> "hex", n |-> 0, s |-> s]

HexToInt(s) ==
    CASE s = "0x0" -> 0
      [] s = "0x1" -> 1
      [] s = "0x3" -> 3
      [] s = "0x5" -> 5
      [] s = "0x6" -> 6
      [] s = "0x7" -> 7

\* utils.coerce_to_int
coerce_to_int(x) == IF x.tag = "int" THEN x.n ELSE HexToInt(x.s)

\* contract_event_utils.block_timestamp(web3, block): seconds of a block
block_timestamp(n) == 1500000000 + 15 * n

\* datetime.fromtimestamp(ts, tz=None): a naive datetime, modelled by its
\* (tag, seconds) pair
fromtimestamp(ts) == <<"datetime", ts>>

\* order_hash.make_order_hash: a deterministic hash of the order's terms
\* (maker, give/get tokens and amounts, expiry, nonce, signature components),
\* returned as hex text; collision-free.
make_order_hash(order) ==
    <<"0x", <<ToBytes(order.tokenGet), order.amountGet,
              ToBytes(order.tokenGive), order.amountGive,
              order.expires, order.nonce, ToBytes(order.user),
              order.v, order.r, order.s>> >>

\* Web3.toBytes(hexstr=signature) of a hash
HashToBytes(h) == h[2]

\* utils.parse_insert_status: "INSERT <oid> <count>" -> (command, oid, count)
InsertStatus(count) == IF count = 0 THEN "INSERT 0 0" ELSE "INSERT 0 1"
parse_insert_status(status) ==
    IF status = "INSERT 0 1" THEN <<"INSERT", 0, 1>> ELSE <<"INSERT", 0, 0>>

\* Python's bool() of an int
Bool(n) == n # 0

\* order_enums.OrderSource
OrderSource == {"ONCHAIN", "OFFCHAIN"}
\* order_enums.OrderState
OrderState == {"OPEN", "FILLED", "CANCELED"}

Max(a, b) == IF a >= b THEN a ELSE b

\* ------------------------------------------------------------------------
\* The events that can be delivered
\* ------------------------------------------------------------------------
\* Terms of the orders of the model.  Order1 and Order2 are signed off-chain
\* orders of maker 0xa1; Order3 is an on-chain-only order (no signature
\* components) of maker 0xb2.
Order1 == [tokenGet |-> "0x00", amountGet |-> 100, tokenGive |-> "0xc3",
           amountGive |-> 50, expires |-> 10, nonce |-> 1, user |-> "0xa1",
           v |-> 27, r |-> "r1", s |-> "s1"]
Order2 == [tokenGet |-> "0xc3", amountGet |-> 60, tokenGive |-> "0x00",
           amountGive |-> 30, expires |-> 6, nonce |-> 2, user |-> "0xA1",
           v |-> 28, r |-> "r2", s |-> "s2"]
Order3 == [tokenGet |-> "0x00", amountGet |-> 40, tokenGive |-> "0xc3",
           amountGive |-> 20, expires |-> 10, nonce |-> 3, user |-> "0xb2",
           v |-> 0, r |-> None, s |-> None]

AllOrderTerms == {Order1, Order2, Order3}

\* Amounts the contract's orderFills accessor may report
Amounts == {0, 40, 60, 100, 150}

TradeEvent(bn, tx, li, tokenGive, amountGive, tokenGet, amountGet, give, get) ==
    [blockNumber |-> bn, transactionHash |-> tx, logIndex |-> li,
     args |-> [tokenGive |-> tokenGive, amountGive |-> amountGive,
               tokenGet |-> tokenGet, amountGet |-> amountGet,
               give |-> give, get |-> get]]

\* Trade1 and Trade1Replay are the same chain event, the second one as a
\* redelivery spells it (hex quantities, other letter case).
Trade1 == TradeEvent(RawInt(5), "0xabc", RawInt(3), "0x00", 10, "0xc3", 20, "0xb2", "0xa1")
Trade1Replay == TradeEvent(RawHex("0x5"), "0xABC", RawHex("0x3"), "0x00", 10, "0xc3", 20, "0xb2", "0xA1")
Trade2 == TradeEvent(RawInt(7), "0xdef", RawInt(0), "0xc3", 40, "0x00", 80, "0xb2", "0xA1")
Trade3 == TradeEvent(RawInt(5), "0xdef", RawInt(1), "0xc3", 5, "0xdef", 5, "0xa1", "0xb2")

\* a Trade event whose transactionHash is not hex text
TradeBad == TradeEvent(RawInt(6), "0xzz", RawInt(2), "0x00", 10, "0xc3", 20, "0xb2", "0xa1")

TradeEvents == {Trade1, Trade1Replay, Trade2, Trade3, TradeBad}

TransferEvent(bn, tx, li, token, user, amount, balance) ==
    [blockNumber |-> bn, transactionHash |-> tx, logIndex |-> li,
     args |-> [token |-> token, user |-> user, amount |-> amount,
               balance |-> balance]]

Transfer1 == TransferEvent(RawInt(5), "0xabc", RawInt(3), "0x00", "0xa1", 70, 70)
Transfer1Replay == TransferEvent(RawHex("0x5"), "0xABC", RawHex("0x3"), "0x00", "0xa1", 70, 70)
Transfer2 == TransferEvent(RawInt(6), "0xabc", RawInt(1), "0xc3", "0xb2", 30, 40)

\* a Deposit / Withdraw event that has no args.user
Missing == "Missing"
TransferBad == TransferEvent(RawInt(6), "0xdef", RawInt(2), "0xc3", Missing, 30, 40)

TransferEvents == {Transfer1, Transfer1Replay, Transfer2, TransferBad}

CancelEvent(bn, tx, li, terms) ==
    [blockNumber |-> bn, transactionHash |-> tx, logIndex |-> li, args |-> terms]

\* a Cancel event of Order1 whose tokenGive is not hex text
CancelBad == CancelEvent(RawInt(6), "0xabc", RawInt(8), [Order1 EXCEPT !.tokenGive = "0xzz"])

CancelEvents == {CancelEvent(RawInt(6), "0xdef", RawInt(5), Order1),
                 CancelEvent(RawInt(7), "0xabc", RawInt(6), Order2),
                 CancelEvent(RawInt(7), "0xdef", RawInt(7), Order3),
                 CancelBad}

\* ------------------------------------------------------------------------
\* State
\* ------------------------------------------------------------------------
VARIABLES
    orders,      \* the orders table: a sequence of rows
    trades,      \* the trades table: a sequence of rows
    transfers,   \* the transfers table: a sequence of rows
    orderFills,  \* the contract's orderFills[maker][hash]
    latest,      \* the number of the chain's head block
    handlers,    \* the running coroutines, one per delivered event
    fillLog      \* the amounts applied by the applyFill calls of SpecFill

vars == <<orders, trades, transfers, orderFills, latest, handlers, fillLog>>

\* ------------------------------------------------------------------------
\* The store's statements.  Each is one atomic SQL statement.
\* ------------------------------------------------------------------------
\* rows of a table that have the event identifier (transaction_hash, log_index)
RowsWithKey(table, txhash, logidx) ==
    {i \in DOMAIN table : table[i].transaction_hash = txhash /\ table[i].log_index = logidx}

\* rows of the orders table that have the signature
RowsWithSignature(tbl, sig) == {i \in DOMAIN tbl : tbl[i].signature = sig}

\* ON CONFLICT ON CONSTRAINT index_trades_on_event_identifier
TradeConflictNever(tbl, row) == FALSE
TradeConflict(tbl, row) == RowsWithKey(tbl, row.transaction_hash, row.log_index) # {}

\* INSERT_TRADE_STMT: the table after the statement
INSERT_TRADE_STMT(tbl, row) == IF TradeConflict(tbl, row) THEN tbl ELSE Append(tbl, row)

\* ON CONFLICT ON CONSTRAINT index_transfers_on_event_identifier
TransferConflict(tbl, row) == RowsWithKey(tbl, row.transaction_hash, row.log_index) # {}

\* INSERT_TRANSFER_STMT: the table after the statement
INSERT_TRANSFER_STMT(tbl, row) == IF TransferConflict(tbl, row) THEN tbl ELSE Append(tbl, row)

\* WHERE clause of FETCH_AFFECTED_ORDERS_STMT
AffectedWhereOpenOnly(row, maker, coin, expiring_at) ==
    /\ row.user = maker
    /\ (row.token_give = coin \/ row.token_get = coin)
    /\ row.expires >= expiring_at
    /\ row.state = "OPEN"
AffectedWhere(row, maker, coin, expiring_at) ==
    /\ row.user = maker
    /\ (row.token_give = coin \/ row.token_get = coin)
    /\ row.expires >= expiring_at

\* FETCH_AFFECTED_ORDERS_STMT: the rows selected, in table order
FETCH_AFFECTED_ORDERS_STMT(tbl, maker, coin, expiring_at) ==
    SelectSeq(tbl, LAMBDA row : AffectedWhere(row, maker, coin, expiring_at))

\* SET "amount_fill" = GREATEST("amount_fill", $1)
FillAmountNoGreatest(row, amount) == amount
FillAmount(row, amount) == Max(row.amount_fill, amount)

\* SET "state" = (CASE ... END), evaluated on the row before the update
FillStateNoTerminal(row, amount) ==
    IF row.amount_get <= Max(row.amount_fill, amount) THEN "FILLED" ELSE "OPEN"
FillStateEager(row, amount) ==
    IF row.state \in {"FILLED", "CANCELED"} THEN row.state ELSE "FILLED"
FillStateStrict(row, amount) ==
    CASE row.state \in {"FILLED", "CANCELED"} -> row.state
      [] row.amount_get < Max(row.amount_fill, amount) -> "FILLED"
      [] OTHER -> "OPEN"
FillState(row, amount) ==
    CASE row.state \in {"FILLED", "CANCELED"} -> row.state
      [] row.amount_get <= Max(row.amount_fill, amount) -> "FILLED"
      [] OTHER -> "OPEN"

\* WHERE "signature" = $3
FillWhereAny(row, sig) == TRUE
FillWhere(row, sig) == row.signature = sig

\* UPDATE_ORDER_FILL_STMT($1 = amount, $2 = updated, $3 = signature)
UPDATE_ORDER_FILL_STMT(tbl, amount, updated, sig) ==
    [i \in DOMAIN tbl |->
        IF FillWhere(tbl[i], sig)
        THEN [tbl[i] EXCEPT !.amount_fill = FillAmount(tbl[i], amount),
                            !.state = FillState(tbl[i], amount),
                            !.updated = updated]
        ELSE tbl[i]]

\* DO UPDATE ... WHERE "orders"."signature" = $2 AND "orders"."state" = 'OPEN'
CancelWhereNoGuard(row, new) == row.signature = new.signature
CancelWhere(row, new) == row.signature = new.signature /\ row.state = "OPEN"

\* UPSERT_CANCELED_ORDER_STMT: insert the row, or on a signature conflict
\* update state, amount_fill and updated of the conflicting row
UPSERT_CANCELED_ORDER_STMT(tbl, new) ==
    IF RowsWithSignature(tbl, new.signature) = {}
    THEN Append(tbl, new)
    ELSE [i \in DOMAIN tbl |->
            IF tbl[i].signature = new.signature /\ CancelWhere(tbl[i], new)
            THEN [tbl[i] EXCEPT !.state = new.state,
                                !.amount_fill = new.amount_fill,
                                !.updated = new.updated]
            ELSE tbl[i]]

\* number of rows UPSERT_CANCELED_ORDER_STMT writes (inserted or updated)
UpsertCount(tbl, new) ==
    IF RowsWithSignature(tbl, new.signature) = {}
    THEN 1
    ELSE Cardinality({i \in RowsWithSignature(tbl, new.signature) : CancelWhere(tbl[i], new)})

\* ------------------------------------------------------------------------
\* The chain
\* ------------------------------------------------------------------------
\* key of orderFills for an order: (maker as the contract spells it, hash)
FillKey(terms) == <<ToHex(ToBytes(terms.user)), HashToBytes(make_order_hash(terms))>>

\* the orders the contract has fills for
FillKeys == {FillKey(Order1), FillKey(Order2)}

\* contract.call().orderFills(maker, signature)
order_fills(maker, sig) ==
    IF <<maker, sig>> \in DOMAIN orderFills THEN orderFills[<<maker, sig>>] ELSE 0

\* A trade on the chain: a new block in which an order's cumulative fill grows
ChainTrade ==
    /\ latest < MaxBlock
    /\ \E k \in DOMAIN orderFills : \E a \in Amounts :
          /\ a > orderFills[k]
          /\ orderFills' = [orderFills EXCEPT ![k] = a]
    /\ latest' = latest + 1
    /\ UNCHANGED <<orders, trades, transfers, handlers, fillLog>>

\* ------------------------------------------------------------------------
\* The handlers
\* ------------------------------------------------------------------------
NoEvent == [blockNumber |-> RawInt(0), transactionHash |-> "", logIndex |-> RawInt(0),
            args |-> [none |-> TRUE]]

\* A coroutine that has no event yet.  pc is the statement it is suspended
\* at; conn the store connections it holds; nFetch, nLookup and nWrite count
\* its fetch_affected_orders calls, orderFills calls and writes to order
\* rows; asked the arguments of its FETCH_AFFECTED_ORDERS_STMT; found the
\* state of the order row its upsert met ("ABSENT" if none);
\* pred the handlers that had returned when its event was delivered;
\* looked the (signature, amount) pairs its orderFills calls returned.
Idle == [pc |-> "idle", kind |-> "None", event |-> NoEvent, row |-> <<>>,
         status |-> "", did |-> FALSE, query |-> <<>>, affected |-> <<>>,
         idx |-> 0, amount_fill |-> 0, updated_at |-> <<>>, conn |-> 0,
         asked |-> <<>>, nFetch |-> 0, nLookup |-> 0, nWrite |-> 0, found |-> "",
         pred |-> {}, looked |-> {}]

Returned == {h \in Handlers : handlers[h].pc = "done"}

\* Coroutines are numbered in the order their events are delivered: h is
\* the next one to be called
NextToDeliver(h) ==
    /\ handlers[h].pc = "idle"
    /\ \A g \in Handlers : g < h => handlers[g].pc # "idle"

\* record_trade, lines 94-109: the row to insert
TradeRow(event) ==
    [block_number |-> coerce_to_int(event.blockNumber),
     transaction_hash |-> ToBytes(event.transactionHash),
     log_index |-> coerce_to_int(event.logIndex),
     token_give |-> ToBytes(event.args.tokenGive),
     amount_give |-> event.args.amountGive,
     token_get |-> ToBytes(event.args.tokenGet),
     amount_get |-> event.args.amountGet,
     addr_give |-> ToBytes(event.args.give),
     addr_get |-> ToBytes(event.args.get),
     date |-> fromtimestamp(block_timestamp(coerce_to_int(event.blockNumber)))]

\* record_trade, lines 98-109, raises while it builds insert_args: one of
\* the hex fields does not decode
TradeRaisesNever(event) == FALSE
TradeRaises(event) ==
    \/ ToBytesRaises(event.transactionHash)
    \/ ToBytesRaises(event.args.tokenGive)
    \/ ToBytesRaises(event.args.tokenGet)
    \/ ToBytesRaises(event.args.give)
    \/ ToBytesRaises(event.args.get)

\* process_trade is called with a Trade event: record_trade builds its row
\* (one block_timestamp call) and suspends at the acquisition of a
\* connection, or raises.
DeliverTrade(h, event) ==
    /\ NextToDeliver(h)
    /\ handlers' = [handlers EXCEPT ![h] =
            IF TradeRaises(event)
            THEN [@ EXCEPT !.pc = "failed", !.kind = "Trade", !.event = event,
                           !.pred = Returned]
            ELSE [@ EXCEPT !.pc = "rt_acquire", !.kind = "Trade", !.event = event,
                           !.row = TradeRow(event), !.pred = Returned]]
    /\ UNCHANGED <<orders, trades, transfers, orderFills, latest, fillLog>>

\* record_trade, line 111: async with App().db.acquire_connection() returns
\* a connection; the statement is not sent yet
RtAcquire(h) ==
    /\ handlers[h].pc = "rt_acquire"
    /\ handlers' = [handlers EXCEPT ![h] = [@ EXCEPT !.pc = "rt_insert", !.conn = @ + 1]]
    /\ UNCHANGED <<orders, trades, transfers, orderFills, latest, fillLog>>

\* record_trade, line 112: execute the insert on the connection held
RtInsert(h) ==
    /\ handlers[h].pc = "rt_insert"
    /\ trades' = INSERT_TRADE_STMT(trades, handlers[h].row)
    /\ handlers' = [handlers EXCEPT ![h] =
            [@ EXCEPT !.pc = "rt_return",
                      !.status = InsertStatus(IF TradeConflict(trades, handlers[h].row)
                                              THEN 0 ELSE 1)]]
    /\ UNCHANGED <<orders, transfers, orderFills, latest, fillLog>>

\* process_trade, lines 29-32: the token the affected orders are looked up by
CoinAddrSwapped(event) ==
    IF event.args.tokenGive = ZERO_ADDR THEN event.args.tokenGive ELSE event.args.tokenGet
CoinAddr(event) ==
    IF event.args.tokenGive # ZERO_ADDR THEN event.args.tokenGive ELSE event.args.tokenGet

\* process_trade, lines 26-34: the arguments of fetch_affected_orders
AffectedQuery(event) ==
    [order_maker |-> event.args.get, coin_addr |-> CoinAddr(event),
     block_number |-> coerce_to_int(event.blockNumber)]

\* record_trade, lines 113-118, releases the connection and returns
\* did_insert; process_trade, lines 20-32 and 42-43, goes on to the
\* affected orders only if the trade was inserted.
RtReturnAlways(h, did_insert) == TRUE
RtRefresh(h, did_insert) == did_insert

RtReturn(h) ==
    /\ handlers[h].pc = "rt_return"
    /\ LET did_insert == Bool(parse_insert_status(handlers[h].status)[3])
       IN handlers' = [handlers EXCEPT ![h] =
            IF RtRefresh(h, did_insert)
            THEN [@ EXCEPT !.pc = "fetch_acquire", !.conn = @ - 1, !.did = did_insert,
                           !.query = AffectedQuery(handlers[h].event)]
            ELSE [@ EXCEPT !.pc = "done", !.conn = @ - 1, !.did = did_insert]]
    /\ UNCHANGED <<orders, trades, transfers, orderFills, latest, fillLog>>

\* the orders in which a SELECT without ORDER BY may return its rows
Orderings(rows) ==
    {[i \in DOMAIN rows |-> rows[p[i]]] :
        p \in {q \in [DOMAIN rows -> DOMAIN rows] :
                  \A i, j \in DOMAIN rows : q[i] = q[j] => i = j}}

\* fetch_affected_orders, line 54: acquire a connection
FetchAcquire(h) ==
    /\ handlers[h].pc = "fetch_acquire"
    /\ handlers' = [handlers EXCEPT ![h] = [@ EXCEPT !.pc = "fetch", !.conn = @ + 1]]
    /\ UNCHANGED <<orders, trades, transfers, orderFills, latest, fillLog>>

\* fetch_affected_orders, lines 55-59: run the query on the connection held
Fetch(h) ==
    /\ handlers[h].pc = "fetch"
    /\ LET args == <<ToBytes(handlers[h].query.order_maker),
                     ToBytes(handlers[h].query.coin_addr),
                     handlers[h].query.block_number>>
       IN \E rows \in Orderings(FETCH_AFFECTED_ORDERS_STMT(orders, args[1], args[2], args[3])) :
            handlers' = [handlers EXCEPT ![h] =
                [@ EXCEPT !.pc = "fetch_return", !.asked = args,
                          !.affected = rows, !.nFetch = @ + 1]]
    /\ UNCHANGED <<orders, trades, transfers, orderFills, latest, fillLog>>

\* fetch_affected_orders releases the connection and returns; process_trade,
\* lines 35-41, calls update_order_fills if any order was found
FetchReturn(h) ==
    /\ handlers[h].pc = "fetch_return"
    /\ handlers' = [handlers EXCEPT ![h] =
            IF Len(handlers[h].affected) > 0
            THEN [@ EXCEPT !.pc = "uf_timestamp", !.conn = @ - 1, !.idx = 1]
            ELSE [@ EXCEPT !.pc = "done", !.conn = @ - 1]]
    /\ UNCHANGED <<orders, trades, transfers, orderFills, latest, fillLog>>

\* update_order_fills, lines 74-77, for the order at idx: the chain call
\* block_timestamp("latest")
UfTimestamp(h) ==
    /\ handlers[h].pc = "uf_timestamp"
    /\ handlers' = [handlers EXCEPT ![h] =
            [@ EXCEPT !.pc = "uf_lookup",
                      !.updated_at = fromtimestamp(block_timestamp(latest))]]
    /\ UNCHANGED <<orders, trades, transfers, orderFills, latest, fillLog>>

\* update_order_fills, lines 78-79: the chain call orderFills(maker,
\* signature), on the chain as it is by then
UfLookup(h) ==
    /\ handlers[h].pc = "uf_lookup"
    /\ LET order == handlers[h].affected[handlers[h].idx]
           order_maker == ToHex(order.user)
           order_signature == order.signature
       IN handlers' = [handlers EXCEPT ![h] =
            [@ EXCEPT !.pc = "uf_acquire", !.nLookup = @ + 1,
                      !.amount_fill = order_fills(order_maker, order_signature),
                      !.looked = @ \cup {<<order_signature,
                                           order_fills(order_maker, order_signature)>>}]]
    /\ UNCHANGED <<orders, trades, transfers, orderFills, latest, fillLog>>

\* update_order_fills, line 78: the orderFills call raises; nothing catches
\* it, so update_order_fills and process_trade end with the exception
UfLookupFails(h) ==
    /\ handlers[h].pc = "uf_lookup"
    /\ handlers' = [handlers EXCEPT ![h] = [@ EXCEPT !.pc = "failed", !.nLookup = @ + 1]]
    /\ UNCHANGED <<orders, trades, transfers, orderFills, latest, fillLog>>

\* update_order_fills, line 80: acquire a connection
UfAcquire(h) ==
    /\ handlers[h].pc = "uf_acquire"
    /\ handlers' = [handlers EXCEPT ![h] = [@ EXCEPT !.pc = "uf_update", !.conn = @ + 1]]
    /\ UNCHANGED <<orders, trades, transfers, orderFills, latest, fillLog>>

\* update_order_fills, line 81: execute the update on the connection held
UfUpdateFromTrade(h) ==
    /\ handlers[h].pc = "uf_update"
    /\ orders' = UPDATE_ORDER_FILL_STMT(orders, handlers[h].event.args.amountGet,
                    handlers[h].updated_at,
                    handlers[h].affected[handlers[h].idx].signature)
    /\ handlers' = [handlers EXCEPT ![h] =
            [@ EXCEPT !.pc = "uf_release", !.nWrite = @ + 1]]
    /\ UNCHANGED <<trades, transfers, orderFills, latest, fillLog>>
UfUpdate(h) ==
    /\ handlers[h].pc = "uf_update"
    /\ orders' = UPDATE_ORDER_FILL_STMT(orders, handlers[h].amount_fill,
                    handlers[h].updated_at,
                    handlers[h].affected[handlers[h].idx].signature)
    /\ handlers' = [handlers EXCEPT ![h] =
            [@ EXCEPT !.pc = "uf_release", !.nWrite = @ + 1]]
    /\ UNCHANGED <<trades, transfers, orderFills, latest, fillLog>>

\* update_order_fills: release the connection; line 73, the next order
UfRelease(h) ==
    /\ handlers[h].pc = "uf_release"
    /\ handlers' = [handlers EXCEPT ![h] =
            IF handlers[h].idx < Len(handlers[h].affected)
            THEN [@ EXCEPT !.pc = "uf_timestamp", !.conn = @ - 1, !.idx = @ + 1]
            ELSE [@ EXCEPT !.pc = "done", !.conn = @ - 1]]
    /\ UNCHANGED <<orders, trades, transfers, orderFills, latest, fillLog>>

\* record_transfer, lines 142-156: the row to insert
TransferRow(transfer_direction, event) ==
    [block_number |-> coerce_to_int(event.blockNumber),
     transaction_hash |-> ToBytes(event.transactionHash),
     log_index |-> coerce_to_int(event.logIndex),
     direction |-> transfer_direction,
     token |-> ToBytes(event.args.token),
     user |-> ToBytes(event.args.user),
     amount |-> event.args.amount,
     balance_after |-> event.args.balance,
     date |-> fromtimestamp(block_timestamp(coerce_to_int(event.blockNumber)))]

\* record_transfer, lines 146-156, raises while it builds insert_args
TransferRaises(event) ==
    \/ ToBytesRaises(event.transactionHash)
    \/ ToBytesRaises(event.args.token)
    \/ ToBytesRaises(event.args.user)

\* record_deposit / record_withdraw is called with a transfer event:
\* record_transfer builds its row and suspends at the acquisition of a
\* connection, or raises
DeliverTransfer(h, transfer_direction, event) ==
    /\ NextToDeliver(h)
    /\ handlers' = [handlers EXCEPT ![h] =
            IF TransferRaises(event)
            THEN [@ EXCEPT !.pc = "failed", !.kind = transfer_direction, !.event = event,
                           !.pred = Returned]
            ELSE [@ EXCEPT !.pc = "tr_acquire", !.kind = transfer_direction, !.event = event,
                           !.row = TransferRow(transfer_direction, event), !.pred = Returned]]
    /\ UNCHANGED <<orders, trades, transfers, orderFills, latest, fillLog>>

\* record_transfer, line 158: acquire a connection
TrAcquire(h) ==
    /\ handlers[h].pc = "tr_acquire"
    /\ handlers' = [handlers EXCEPT ![h] = [@ EXCEPT !.pc = "tr_insert", !.conn = @ + 1]]
    /\ UNCHANGED <<orders, trades, transfers, orderFills, latest, fillLog>>

\* record_transfer, line 159: execute the insert on the connection held
TrInsert(h) ==
    /\ handlers[h].pc = "tr_insert"
    /\ transfers' = INSERT_TRANSFER_STMT(transfers, handlers[h].row)
    /\ handlers' = [handlers EXCEPT ![h] =
            [@ EXCEPT !.pc = "tr_return",
                      !.status = InsertStatus(IF TransferConflict(transfers, handlers[h].row)
                                              THEN 0 ELSE 1)]]
    /\ UNCHANGED <<orders, trades, orderFills, latest, fillLog>>

\* record_transfer, lines 160-162, releases the connection and returns
\* did_insert, which record_deposit / record_withdraw return
TrReturn(h) ==
    /\ handlers[h].pc = "tr_return"
    /\ handlers' = [handlers EXCEPT ![h] =
            [@ EXCEPT !.pc = "done", !.conn = @ - 1,
                      !.did = Bool(parse_insert_status(handlers[h].status)[3])]]
    /\ UNCHANGED <<orders, trades, transfers, orderFills, latest, fillLog>>

\* record_cancel, lines 184-187: the provenance of the order.  The code
\* names the on-chain member ONCHANIN.
CancelSource(order) == IF order.r # None THEN "OFFCHAIN" ELSE "ONCHANIN"

\* record_cancel, lines 184-202, raises before the upsert: OrderSource has
\* no member of that name, Web3.toBytes(text=None) is a TypeError, or one of
\* the hex fields does not decode
CancelRaises(order) ==
    \/ CancelSource(order) \notin OrderSource
    \/ ToBytesRaises(order.tokenGive)
    \/ ToBytesRaises(order.tokenGet)
    \/ ToBytesRaises(order.user)
    \/ order.r = None
    \/ order.s = None

\* record_cancel, lines 180-206: the row to upsert
CancelAmountZero(order) == 0
CancelAmount(order) == order.amountGet

CancelRow(event) ==
    LET order == event.args
        date == fromtimestamp(block_timestamp(coerce_to_int(event.blockNumber)))
    IN [source |-> CancelSource(order),
        signature |-> HashToBytes(make_order_hash(order)),
        token_give |-> ToBytes(order.tokenGive),
        amount_give |-> order.amountGive,
        token_get |-> ToBytes(order.tokenGet),
        amount_get |-> order.amountGet,
        expires |-> order.expires,
        nonce |-> order.nonce,
        user |-> ToBytes(order.user),
        state |-> "CANCELED",
        v |-> order.v,
        r |-> TextToBytes(order.r),
        s |-> TextToBytes(order.s),
        date |-> date,
        amount_fill |-> CancelAmount(order),
        updated |-> date]

\* record_cancel is called with a Cancel event: it builds the row (one
\* block_timestamp call) and suspends at the acquisition of a connection,
\* or raises
DeliverCancel(h, event) ==
    /\ NextToDeliver(h)
    /\ handlers' = [handlers EXCEPT ![h] =
            IF CancelRaises(event.args)
            THEN [@ EXCEPT !.pc = "failed", !.kind = "Cancel", !.event = event,
                           !.pred = Returned]
            ELSE [@ EXCEPT !.pc = "rc_acquire", !.kind = "Cancel", !.event = event,
                           !.row = CancelRow(event), !.pred = Returned]]
    /\ UNCHANGED <<orders, trades, transfers, orderFills, latest, fillLog>>

\* the state of the row that has the signature, "ABSENT" if there is none
FoundState(tbl, sig) ==
    IF RowsWithSignature(tbl, sig) = {} THEN "ABSENT"
    ELSE tbl[CHOOSE i \in RowsWithSignature(tbl, sig) : TRUE].state

\* record_cancel, line 208: acquire a connection
RcAcquire(h) ==
    /\ handlers[h].pc = "rc_acquire"
    /\ handlers' = [handlers EXCEPT ![h] = [@ EXCEPT !.pc = "rc_upsert", !.conn = @ + 1]]
    /\ UNCHANGED <<orders, trades, transfers, orderFills, latest, fillLog>>

\* record_cancel, line 209: execute the upsert on the connection held
RcUpsert(h) ==
    /\ handlers[h].pc = "rc_upsert"
    /\ orders' = UPSERT_CANCELED_ORDER_STMT(orders, handlers[h].row)
    /\ handlers' = [handlers EXCEPT ![h] =
            [@ EXCEPT !.pc = "rc_return",
                      !.nWrite = @ + UpsertCount(orders, handlers[h].row),
                      !.found = FoundState(orders, handlers[h].row.signature),
                      !.status = InsertStatus(UpsertCount(orders, handlers[h].row))]]
    /\ UNCHANGED <<trades, transfers, orderFills, latest, fillLog>>

\* record_cancel, lines 210-215, releases the connection and returns did_upsert
RcReturn(h) ==
    /\ handlers[h].pc = "rc_return"
    /\ handlers' = [handlers EXCEPT ![h] =
            [@ EXCEPT !.pc = "done", !.conn = @ - 1,
                      !.did = Bool(parse_insert_status(handlers[h].status)[3])]]
    /\ UNCHANGED <<orders, trades, transfers, orderFills, latest, fillLog>>

\* ------------------------------------------------------------------------
\* The initial store and the specification
\* ------------------------------------------------------------------------
\* An order row as the off-chain order submission stores it, here with the
\* state and filled amount earlier events left it in
OrderRow(terms, state, amount_fill) ==
    [source |-> "OFFCHAIN",
     signature |-> HashToBytes(make_order_hash(terms)),
     token_give |-> ToBytes(terms.tokenGive),
     amount_give |-> terms.amountGive,
     token_get |-> ToBytes(terms.tokenGet),
     amount_get |-> terms.amountGet,
     expires |-> terms.expires,
     nonce |-> terms.nonce,
     user |-> ToBytes(terms.user),
     state |-> state,
     v |-> terms.v,
     r |-> TextToBytes(terms.r),
     s |-> TextToBytes(terms.s),
     date |-> fromtimestamp(block_timestamp(1)),
     amount_fill |-> amount_fill,
     updated |-> fromtimestamp(block_timestamp(1))]

\* The stores the handlers may start from: Order1 is persisted, open
\* (unfilled or partly filled), filled or canceled; Order2 is persisted
\* open and unfilled, or not yet known to the store.
InitStores ==
    {<<row1>> \o rest :
        row1 \in {OrderRow(Order1, "OPEN", 0), OrderRow(Order1, "OPEN", 60),
                  OrderRow(Order1, "FILLED", 100), OrderRow(Order1, "CANCELED", 100)},
        rest \in {<<>>, <<OrderRow(Order2, "OPEN", 0)>>}}

\* the contract's fill of an order: what the store has of it, else nothing
InitFill(tbl, k) ==
    IF \E i \in DOMAIN tbl : <<ToHex(tbl[i].user), tbl[i].signature>> = k
    THEN (CHOOSE f \in Amounts : \E i \in DOMAIN tbl :
            <<ToHex(tbl[i].user), tbl[i].signature>> = k /\ tbl[i].amount_fill = f)
    ELSE 0

Init ==
    /\ orders \in InitStores
    /\ trades = <<>>
    /\ transfers = <<>>
    /\ orderFills = [k \in FillKeys |-> InitFill(orders, k)]
    /\ latest = MaxBlock - 1
    /\ handlers = [h \in Handlers |-> Idle]
    /\ fillLog = <<>>

Next ==
    \/ ChainTrade
    \/ \E h \in Handlers :
        \/ \E event \in TradeEvents : DeliverTrade(h, event)
        \/ RtAcquire(h)
        \/ RtInsert(h)
        \/ RtReturn(h)
        \/ FetchAcquire(h)
        \/ Fetch(h)
        \/ FetchReturn(h)
        \/ UfTimestamp(h)
        \/ UfLookup(h)
        \/ UfLookupFails(h)
        \/ UfAcquire(h)
        \/ UfUpdate(h)
        \/ UfRelease(h)
        \/ \E event \in TransferEvents : DeliverTransfer(h, "DEPOSIT", event)
        \/ \E event \in TransferEvents : DeliverTransfer(h, "WITHDRAW", event)
        \/ TrAcquire(h)
        \/ TrInsert(h)
        \/ TrReturn(h)
        \/ \E event \in CancelEvents : DeliverCancel(h, event)
        \/ RcAcquire(h)
        \/ RcUpsert(h)
        \/ RcReturn(h)

Spec == Init /\ [][Next]_vars

\* ------------------------------------------------------------------------
\* SpecFill: sequences of applyFill calls (UPDATE_ORDER_FILL_STMT) on a store
\* ------------------------------------------------------------------------
\* Order1 in every state the handlers can leave it in, next to an open Order2
FillStores ==
    {<<row1, OrderRow(Order2, "OPEN", 0)>> :
        row1 \in {OrderRow(Order1, st.state, st.amount_fill) :
                    st \in {x \in [state : OrderState, amount_fill : Amounts] :
                              (x.state = "OPEN") <=> (x.amount_fill < Order1.amountGet)}}}

SigOf(terms) == HashToBytes(make_order_hash(terms))

InitFills ==
    /\ orders \in FillStores
    /\ trades = <<>>
    /\ transfers = <<>>
    /\ orderFills = [k \in FillKeys |-> 0]
    /\ latest = MaxBlock - 1
    /\ handlers = [h \in Handlers |-> Idle]
    /\ fillLog = [init |-> orders, calls |-> <<>>]

\* one execution of UPDATE_ORDER_FILL_STMT, as update_order_fills line 81
\* makes it; the log keeps the call with the table before and after it
ApplyFill(sig, amount) ==
    /\ Len(fillLog.calls) < MaxFills
    /\ orders' = UPDATE_ORDER_FILL_STMT(orders, amount,
                    fromtimestamp(block_timestamp(latest)), sig)
    /\ fillLog' = [fillLog EXCEPT !.calls =
            Append(@, [signature |-> sig, amount |-> amount,
                       before |-> orders, after |-> orders'])]
    /\ UNCHANGED <<trades, transfers, orderFills, latest, handlers>>

NextFills ==
    \E terms \in AllOrderTerms : \E amount \in Amounts : ApplyFill(SigOf(terms), amount)

SpecFill == InitFills /\ [][NextFills]_vars

\* ------------------------------------------------------------------------
\* Properties
\* ------------------------------------------------------------------------
MaxOf(S) == CHOOSE x \in S : \A y \in S : y <= x

\* amounts of the logged applyFill calls on a signature
AmountsApplied(sig) ==
    {fillLog.calls[c].amount : c \in {d \in DOMAIN fillLog.calls : fillLog.calls[d].signature = sig}}

\* C3 (fill monotonicity): after any sequence of applyFill calls with amounts
\* a1..an on an order's signature, the stored amount_fill of that order is
\* max(a1, ..., an, f0), f0 being its initial filled amount, whatever the
\* order's status is.
C3_FillIsMax ==
    \A i \in DOMAIN orders :
        /\ orders[i].signature = fillLog.init[i].signature
        /\ orders[i].amount_fill =
             MaxOf({fillLog.init[i].amount_fill} \cup AmountsApplied(orders[i].signature))

\* C3 witness: three calls on Order1, the last one below an earlier one, on
\* an order that is not open.
C3_Witness ==
    /\ Len(fillLog.calls) = 3
    /\ \A c \in 1..3 : fillLog.calls[c].signature = SigOf(Order1)
    /\ fillLog.calls[2].amount > fillLog.calls[3].amount
    /\ fillLog.calls[2].amount > fillLog.init[1].amount_fill
    /\ fillLog.init[1].state = "CANCELED"
    /\ orders[1].amount_fill = fillLog.calls[2].amount

\* the first n logged calls are applyFill 60, 100, 40 on Order1, which
\* started OPEN with get-amount 100 and filled amount 0
ScenarioPrefix(n) ==
    /\ fillLog.init[1].state = "OPEN"
    /\ fillLog.init[1].amount_fill = 0
    /\ fillLog.init[1].amount_get = 100
    /\ Len(fillLog.calls) >= n
    /\ \A c \in 1..n : /\ fillLog.calls[c].signature = SigOf(Order1)
                        /\ fillLog.calls[c].amount = <<60, 100, 40>>[c]

\* C8 (applyFill status rule): applyFill with amount a on an order with
\* status s, filled amount f and get-amount g yields filled amount max(f, a)
\* and status s if s is FILLED or CANCELED, FILLED if s is OPEN and
\* max(f, a) >= g, and OPEN otherwise; an OPEN order with g = 100, f = 0 goes
\* through applyFill 60 -> (60, OPEN), 100 -> (100, FILLED), 40 -> (100, FILLED).
C8_StatusRule ==
    /\ \A c \in DOMAIN fillLog.calls :
         LET call == fillLog.calls[c] IN
         \A i \in DOMAIN call.before :
            call.before[i].signature = call.signature =>
               LET s == call.before[i].state
                   f == call.before[i].amount_fill
                   g == call.before[i].amount_get
                   a == call.amount
               IN /\ call.after[i].amount_fill = Max(f, a)
                  /\ call.after[i].state =
                        IF s \in {"FILLED", "CANCELED"} THEN s
                        ELSE IF Max(f, a) >= g THEN "FILLED" ELSE "OPEN"
    /\ ScenarioPrefix(1) =>
         /\ fillLog.calls[1].after[1].amount_fill = 60
         /\ fillLog.calls[1].after[1].state = "OPEN"
    /\ ScenarioPrefix(2) =>
         /\ fillLog.calls[2].after[1].amount_fill = 100
         /\ fillLog.calls[2].after[1].state = "FILLED"
    /\ ScenarioPrefix(3) =>
         /\ fillLog.calls[3].after[1].amount_fill = 100
         /\ fillLog.calls[3].after[1].state = "FILLED"

\* C8 witness: the scenario's three calls have been made.
C8_Witness == ScenarioPrefix(3) /\ orders[1].state = "FILLED" /\ orders[1].amount_fill = 100

Terminated(h) == handlers[h].pc \in {"done", "failed"}

\* the table a handler's fact row goes to
FactTable(h) == IF handlers[h].kind = "Trade" THEN trades ELSE transfers

\* h2 handles a redelivery of the event h1 handled: same kind, same decoded
\* fact (the events decode), and h1 had returned when h2's event was delivered
Redelivery(h1, h2) ==
    /\ h1 # h2
    /\ handlers[h1].kind \in {"Trade", "DEPOSIT", "WITHDRAW"}
    /\ handlers[h2].kind = handlers[h1].kind
    /\ h1 \in handlers[h2].pred
    /\ handlers[h1].row # <<>>
    /\ handlers[h2].row = handlers[h1].row

\* C1 (replay idempotence): when a trade, deposit or withdraw event is
\* delivered a second time after its first delivery returned, the table keeps
\* exactly one row with its (transaction_hash, log_index), the second call
\* reports inserted = false, and the second call makes no affected-order
\* lookup, no fill lookup and no write to an order row.
C1_ReplayIdempotent ==
    \A h1, h2 \in Handlers :
        Redelivery(h1, h2) =>
            /\ Cardinality(RowsWithKey(FactTable(h2), handlers[h2].row.transaction_hash,
                                       handlers[h2].row.log_index)) = 1
            /\ handlers[h2].pc \notin {"fetch_acquire", "fetch", "fetch_return",
                                        "uf_timestamp", "uf_lookup", "uf_acquire",
                                        "uf_update", "uf_release", "failed"}
            /\ handlers[h2].pc = "done" => ~handlers[h2].did
            /\ handlers[h2].nFetch = 0
            /\ handlers[h2].nLookup = 0
            /\ handlers[h2].nWrite = 0

\* C1 witness: a trade whose first delivery refreshed an order was delivered
\* again, spelled differently, and the second handler has returned.
C1_Witness ==
    /\ handlers[1].event = Trade1 /\ handlers[2].event = Trade1Replay
    /\ Redelivery(1, 2)
    /\ handlers[1].did /\ handlers[1].nWrite > 0
    /\ handlers[2].pc = "done"

\* h1 and h2 are process_trade handlers of trade events that share
\* (transactionHash, logIndex) and ran concurrently: neither had returned
\* when the other's event was delivered
ConcurrentDuplicates(h1, h2) ==
    /\ h1 # h2
    /\ handlers[h1].kind = "Trade" /\ handlers[h2].kind = "Trade"
    /\ handlers[h1].row # <<>> /\ handlers[h2].row # <<>>
    /\ handlers[h1].row.transaction_hash = handlers[h2].row.transaction_hash
    /\ handlers[h1].row.log_index = handlers[h2].row.log_index
    /\ h1 \notin handlers[h2].pred /\ h2 \notin handlers[h1].pred

\* C2 (concurrent duplicates): when two process_trade handlers for trade
\* events sharing (transactionHash, logIndex) run concurrently, under any
\* interleaving of their store operations, exactly one trade row is persisted
\* and exactly one round of affected-order refresh (fetch_affected_orders,
\* followed by update_order_fills on the orders found) occurs.
C2_ConcurrentDuplicates ==
    \A h1, h2 \in Handlers :
        ConcurrentDuplicates(h1, h2) =>
            LET rows == RowsWithKey(trades, handlers[h1].row.transaction_hash,
                                    handlers[h1].row.log_index)
            IN /\ Cardinality(rows) <= 1
               /\ handlers[h1].nFetch + handlers[h2].nFetch <= 1
               /\ (Terminated(h1) /\ Terminated(h2)) =>
                     /\ Cardinality(rows) = 1
                     /\ handlers[h1].nFetch + handlers[h2].nFetch = 1
                     /\ \A h \in {h1, h2} :
                           /\ handlers[h].nFetch = 0 => handlers[h].nLookup = 0
                           /\ (handlers[h].nFetch = 1 /\ Len(handlers[h].affected) > 0)
                                 => handlers[h].nLookup >= 1

\* C2 witness: two handlers of the same trade, spelled differently, ran
\* concurrently and both have returned, one of them after refreshing an order.
C2_Witness ==
    /\ ConcurrentDuplicates(1, 2)
    /\ handlers[1].pc = "done" /\ handlers[2].pc = "done"
    /\ handlers[1].event # handlers[2].event
    /\ \E h \in {1, 2} : handlers[h].nWrite > 0

IsTerminal(state) == state \in {"FILLED", "CANCELED"}

\* the step is handler h executing UPDATE_ORDER_FILL_STMT (applyFill)
IsApplyFill(h) == handlers[h].pc = "uf_update" /\ handlers'[h].pc = "uf_release"

\* the step is handler h executing UPSERT_CANCELED_ORDER_STMT (applyCancel)
IsApplyCancel(h) == handlers[h].pc = "rc_upsert" /\ handlers'[h].pc = "rc_return"

\* C4 as stated (terminal-state immutability): once an order's status is
\* FILLED or CANCELED, no later applyFill, whatever its amount, and no later
\* applyCancel changes that order's status or its filled amount.
C4_TerminalImmutable ==
    [][\A i \in DOMAIN orders :
          IsTerminal(orders[i].state) =>
             /\ orders'[i].state = orders[i].state
             /\ orders'[i].amount_fill = orders[i].amount_fill]_vars

\* C4 as amended: once an order's status is FILLED or CANCELED, no later
\* applyFill or applyCancel changes its status, and none lowers its filled
\* amount; an applyCancel leaves the filled amount as it is, and an applyFill
\* changes it only by raising it to an amount above the stored one.
C4_TerminalStatusKept ==
    [][\A i \in DOMAIN orders :
          IsTerminal(orders[i].state) =>
             /\ orders'[i].state = orders[i].state
             /\ orders'[i].amount_fill >= orders[i].amount_fill
             /\ orders'[i].amount_fill # orders[i].amount_fill =>
                   \E h \in Handlers :
                      /\ IsApplyFill(h)
                      /\ handlers[h].affected[handlers[h].idx].signature = orders[i].signature
                      /\ handlers[h].amount_fill > orders[i].amount_fill
                      /\ orders'[i].amount_fill = handlers[h].amount_fill]_vars

\* C4 witness: Order1, canceled with filled amount 100, has met an applyFill
\* of 150 and an applyCancel that wrote nothing.
C4_Witness ==
    /\ orders[1].state = "CANCELED"
    /\ orders[1].amount_fill = 150
    /\ \E h \in Handlers :
          /\ handlers[h].kind = "Cancel" /\ handlers[h].pc = "done"
          /\ handlers[h].row.signature = orders[1].signature
          /\ handlers[h].found = "CANCELED" /\ ~handlers[h].did

\* C5 (cancel guard): applyCancel (record_cancel) on an existing order whose
\* status is OPEN sets its status to CANCELED and its filled amount to the
\* order's get-amount and reports that a write occurred; on an existing order
\* whose status is FILLED or CANCELED it changes no column of the order and
\* reports that no write occurred.  (A record_cancel whose event matches an
\* existing order always reaches its upsert.)
C5_CancelGuard ==
    [][\A h \in Handlers :
          /\ (handlers[h].pc = "idle" /\ handlers'[h].kind = "Cancel"
                /\ RowsWithSignature(orders, SigOf(handlers'[h].event.args)) # {})
               => handlers'[h].pc = "rc_acquire"
          /\ IsApplyCancel(h) =>
                \A i \in RowsWithSignature(orders, handlers[h].row.signature) :
                   /\ orders[i].state = "OPEN" =>
                         /\ orders'[i] = [orders[i] EXCEPT
                                            !.state = "CANCELED",
                                            !.amount_fill = orders[i].amount_get,
                                            !.updated = orders'[i].updated]
                         /\ handlers'[h].found = "OPEN"
                   /\ IsTerminal(orders[i].state) =>
                         /\ orders'[i] = orders[i]
                         /\ handlers'[h].found = orders[i].state
          /\ (handlers[h].pc = "rc_return" /\ handlers'[h].pc = "done") =>
                /\ handlers[h].found = "OPEN" => handlers'[h].did
                /\ IsTerminal(handlers[h].found) => ~handlers'[h].did]_vars

\* C5 witness: one record_cancel has canceled the open, partly filled Order1
\* and reported a write; a second one of the same event has met the canceled
\* order and reported none.
C5_Witness ==
    /\ orders[1].state = "CANCELED" /\ orders[1].amount_fill = 100
    /\ handlers[1].kind = "Cancel" /\ handlers[1].pc = "done"
    /\ handlers[1].found = "OPEN" /\ handlers[1].did
    /\ handlers[2].kind = "Cancel" /\ handlers[2].pc = "done"
    /\ handlers[2].found = "CANCELED" /\ ~handlers[2].did
    /\ handlers[2].row.signature = orders[1].signature

\* C6 (one-directional status): in every step an order's status stays the
\* same, or changes OPEN -> FILLED, only by an applyFill and only when the
\* resulting filled amount is >= amount_get, or OPEN -> CANCELED, only by an
\* applyCancel; no step changes a FILLED or CANCELED status and none sets a
\* status back to OPEN.
C6_OneDirectional ==
    [][\A i \in DOMAIN orders :
          \/ orders'[i].state = orders[i].state
          \/ /\ orders[i].state = "OPEN"
             /\ orders'[i].state = "FILLED"
             /\ orders'[i].amount_fill >= orders'[i].amount_get
             /\ \E h \in Handlers :
                   /\ IsApplyFill(h)
                   /\ handlers[h].affected[handlers[h].idx].signature = orders[i].signature
          \/ /\ orders[i].state = "OPEN"
             /\ orders'[i].state = "CANCELED"
             /\ \E h \in Handlers :
                   /\ IsApplyCancel(h)
                   /\ handlers[h].row.signature = orders[i].signature]_vars

\* C6 witness: Order2, persisted open, has become FILLED by an applyFill and
\* Order1 has become CANCELED by an applyCancel that met it open.
C6_Witness ==
    /\ Len(orders) = 2
    /\ orders[2].state = "FILLED"
    /\ orders[1].state = "CANCELED"
    /\ \E h \in Handlers : handlers[h].kind = "Cancel" /\ handlers[h].found = "OPEN"
                             /\ handlers[h].row.signature = orders[1].signature
    /\ \E h \in Handlers : handlers[h].kind = "Trade" /\ handlers[h].nWrite > 0

\* C7 (order-independence under concurrency): for a single order, under
\* every interleaving of concurrently running trade handlers (lookup, then
\* applyFill) and cancel handlers (applyCancel), each store statement being
\* atomic, the order's filled amount never decreases from one state to the
\* next and its status never leaves FILLED or CANCELED once reached.
C7_MonotoneUnderRaces ==
    [][\A i \in DOMAIN orders :
          /\ i \in DOMAIN orders'
          /\ orders'[i].signature = orders[i].signature
          /\ orders'[i].amount_fill >= orders[i].amount_fill
          /\ IsTerminal(orders[i].state) => orders'[i].state = orders[i].state]_vars

\* C7 witness: a trade handler looked up a fill of Order1, a cancel handler
\* then canceled the order, and the trade handler has applied its stale,
\* smaller amount since: the order is still CANCELED and filled to amount_get.
C7_Witness ==
    \E h, c \in Handlers :
        /\ handlers[h].kind = "Trade" /\ handlers[h].pc = "uf_release"
        /\ handlers[h].affected[handlers[h].idx].signature = orders[1].signature
        /\ handlers[h].affected[handlers[h].idx].state = "OPEN"
        /\ handlers[h].amount_fill < orders[1].amount_fill
        /\ handlers[c].kind = "Cancel" /\ handlers[c].found = "OPEN"
        /\ handlers[c].row.signature = orders[1].signature
        /\ orders[1].state = "CANCELED"
        /\ orders[1].amount_fill = orders[1].amount_get

\* C9 as stated (cancel synthesis): when record_cancel processes a cancel
\* event whose order signature matches no persisted order, it inserts exactly
\* one new order row built from the event's own terms, with status CANCELED
\* and amount_fill equal to the event's amountGet, and reports that a write
\* occurred; the row is there for a later applyFill or applyCancel.
C9_CancelSynthesis ==
    \A h \in Handlers :
        (handlers[h].kind = "Cancel" /\ Terminated(h)) =>
            LET order == handlers[h].event.args
                rows == RowsWithSignature(orders, SigOf(order))
            IN /\ Cardinality(rows) = 1
               /\ handlers[h].found = "ABSENT" =>
                     /\ handlers[h].did
                     /\ \A i \in rows :
                           /\ orders[i].state = "CANCELED"
                           /\ orders[i].amount_get = order.amountGet
                           /\ orders[i].amount_fill >= order.amountGet
                           /\ orders[i].user = ToBytes(order.user)
                           /\ orders[i].token_give = ToBytes(order.tokenGive)
                           /\ orders[i].token_get = ToBytes(order.tokenGet)
                           /\ orders[i].expires = order.expires
                           /\ orders[i].nonce = order.nonce

\* The part of C9 the code keeps: a record_cancel that returns has left
\* exactly one row with the event's signature, and if it met none it
\* reported a write and the row is CANCELED and filled to amountGet.
C9_SynthesisWhenReturned ==
    \A h \in Handlers :
        (handlers[h].kind = "Cancel" /\ handlers[h].pc = "done") =>
            LET order == handlers[h].event.args
                rows == RowsWithSignature(orders, SigOf(order))
            IN /\ Cardinality(rows) = 1
               /\ handlers[h].found = "ABSENT" =>
                     /\ handlers[h].did
                     /\ \A i \in rows : /\ orders[i].state = "CANCELED"
                                         /\ orders[i].amount_fill >= order.amountGet

\* C10 (affected-order token selection): for every newly inserted trade,
\* process_trade queries the locator with maker = the trade's `get` address,
\* notExpiredBefore = the trade's block number, and token = the trade's
\* tokenGet when tokenGive is the zero/native address, otherwise tokenGive.
C10_TokenSelection ==
    \A h \in Handlers :
        (handlers[h].kind = "Trade" /\ handlers[h].did) =>
            LET args == handlers[h].event.args IN
            /\ handlers[h].pc \notin {"rt_acquire", "rt_insert", "rt_return"}
            /\ handlers[h].pc \notin {"fetch_acquire", "fetch"} =>
                  /\ handlers[h].nFetch = 1
                  /\ handlers[h].asked[1] = ToBytes(args.get)
                  /\ handlers[h].asked[2] =
                        IF ToBytes(args.tokenGive) = ToBytes(ZERO_ADDR)
                        THEN ToBytes(args.tokenGet) ELSE ToBytes(args.tokenGive)
                  /\ handlers[h].asked[3] = handlers[h].row.block_number

\* C10 witness: Trade1, whose tokenGive is the zero address, was looked up
\* by its tokenGet, and Trade2, whose tokenGive is a token, by its tokenGive.
C10_Witness ==
    /\ handlers[1].event = Trade1 /\ handlers[1].pc = "done"
    /\ handlers[1].asked = <<ToBytes("0xa1"), ToBytes(Trade1.args.tokenGet), 5>>
    /\ handlers[2].event = Trade2 /\ handlers[2].pc = "done"
    /\ handlers[2].asked = <<ToBytes("0xa1"), ToBytes(Trade2.args.tokenGive), 7>>

\* the step is handler h executing FETCH_AFFECTED_ORDERS_STMT
IsFetch(h) == handlers[h].pc = "fetch" /\ handlers'[h].pc = "fetch_return"

\* C11 (affected-order locator): fetch_affected_orders(maker, token, n)
\* returns exactly the persisted orders with user = maker, token_give = token
\* or token_get = token, and expires >= n, whatever their status; when that
\* set is empty, process_trade makes no fill lookup and no order write, does
\* not retry, and completes normally.
C11_Locator ==
    [][\A h \in Handlers :
          /\ IsFetch(h) =>
                LET maker == handlers'[h].asked[1]
                    token == handlers'[h].asked[2]
                    n == handlers'[h].asked[3]
                    matching == {i \in DOMAIN orders :
                                    /\ orders[i].user = maker
                                    /\ token \in {orders[i].token_give, orders[i].token_get}
                                    /\ orders[i].expires >= n}
                    found == handlers'[h].affected
                IN /\ Len(found) = Cardinality(matching)
                   /\ {found[k] : k \in DOMAIN found} = {orders[i] : i \in matching}
          /\ (handlers'[h].nFetch > 0 /\ handlers'[h].affected = <<>>
                /\ handlers'[h].pc # "fetch_return") =>
                /\ handlers'[h].pc = "done"
                /\ handlers'[h].nFetch = 1
                /\ handlers'[h].nLookup = 0
                /\ handlers'[h].nWrite = 0]_vars

\* C11 witness: the lookup of Trade3 (maker 0xb2) found no order and its
\* handler has returned; the lookup of another trade returned two orders of
\* maker 0xa1, one of them not open.
C11_Witness ==
    /\ handlers[1].event = Trade3 /\ handlers[1].pc = "done"
    /\ handlers[1].nFetch = 1 /\ handlers[1].affected = <<>>
    /\ handlers[2].kind = "Trade" /\ Len(handlers[2].affected) = 2
    /\ \E k \in 1..2 : handlers[2].affected[k].state \in {"FILLED", "CANCELED"}

\* C12 (lookup failure isolation): when the orderFills call fails for one
\* order of the affected set, the failure ends that order's refresh only:
\* when the handler has ended, every order of the affected set has been
\* looked up, and every order but the failing one has been updated.
C12_LookupIsolation ==
    \A h \in Handlers :
        (handlers[h].kind = "Trade" /\ Terminated(h) /\ handlers[h].nFetch = 1) =>
            /\ handlers[h].nLookup = Len(handlers[h].affected)
            /\ handlers[h].nWrite >= Len(handlers[h].affected)
                                       - (IF handlers[h].pc = "failed" THEN 1 ELSE 0)

\* the events of the model that have a field missing or undecodable
MalformedEvents == {TradeBad, TransferBad, CancelBad}

\* C13 (malformed events write nothing): every step of the handler of an
\* event with a missing or undecodable field leaves the trades, transfers
\* and orders tables as they are, and the handler has failed after it.
C13_MalformedWritesNothing ==
    [][\A h \in Handlers :
          (handlers'[h] # handlers[h] /\ handlers'[h].event \in MalformedEvents) =>
              /\ handlers'[h].pc = "failed"
              /\ handlers'[h].nWrite = 0
              /\ handlers'[h].status = ""
              /\ UNCHANGED <<orders, trades, transfers>>]_vars

\* C13 witness: a malformed Trade event and a malformed Cancel event have
\* been delivered, both handlers failed, no fact row exists and the orders
\* table is an initial store
C13_Witness ==
    /\ handlers[1].event = TradeBad /\ handlers[1].pc = "failed"
    /\ handlers[2].event = CancelBad /\ handlers[2].pc = "failed"
    /\ trades = <<>> /\ transfers = <<>>
    /\ orders \in InitStores

\* C14 (eventual consistency with the chain under races): the chain's fill
\* of an order only grows (ChainTrade); when the delivered events are all
\* Trade events and their handlers have all completed without failure, every
\* order row has amount_fill >= every amount any handler looked up for it.
C14_ConsistentUnderRaces ==
    (\A h \in Handlers : handlers[h].kind = "Trade" /\ handlers[h].pc = "done") =>
        \A h \in Handlers : \A l \in handlers[h].looked :
            \A i \in RowsWithSignature(orders, l[1]) : orders[i].amount_fill >= l[2]

\* C14 witness: two Trade handlers have completed, each with one affected
\* order, the same one; one took its timestamp and a smaller amount before
\* the chain's fill grew, the other its timestamp and the larger amount
\* after it; the row carries the older timestamp, so the stale write came
\* last, and its amount_fill is the larger amount.
C14_Witness ==
    /\ \A h \in Handlers : handlers[h].kind = "Trade" /\ handlers[h].pc = "done"
    /\ latest = MaxBlock
    /\ \E h, g \in Handlers : \E l \in handlers[h].looked, m \in handlers[g].looked :
          /\ l[1] = m[1] /\ l[2] < m[2]
          /\ Len(handlers[h].affected) = 1 /\ Len(handlers[g].affected) = 1
          /\ handlers[h].updated_at = fromtimestamp(block_timestamp(MaxBlock - 1))
          /\ handlers[g].updated_at = fromtimestamp(block_timestamp(MaxBlock))
          /\ \E i \in RowsWithSignature(orders, l[1]) :
                /\ orders[i].amount_fill = m[2]
                /\ orders[i].updated = handlers[h].updated_at

\* the columns of an order row that UPDATE_ORDER_FILL_STMT does not assign
FrameColumns == {"source", "signature", "token_give", "amount_give", "token_get",
                 "amount_get", "expires", "nonce", "user", "v", "r", "s", "date"}

\* C15 (frame of applyFill): a call whose signature no order row has inserts
\* no row and changes none; a call whose signature a row has changes only
\* that row's amount_fill, state and updated columns, and no other row.
C15_FillFrame ==
    \A c \in DOMAIN fillLog.calls :
        LET call == fillLog.calls[c]
        IN /\ DOMAIN call.after = DOMAIN call.before
           /\ (\A i \in DOMAIN call.before : call.before[i].signature # call.signature)
                 => call.after = call.before
           /\ \A i \in DOMAIN call.before :
                 /\ call.before[i].signature # call.signature
                       => call.after[i] = call.before[i]
                 /\ \A col \in FrameColumns : call.after[i][col] = call.before[i][col]

\* C15 witness: one logged call names the signature of Order3, which the
\* store does not have; another call changed the amount_fill, state and
\* updated columns of Order1's row, next to the row of Order2.
C15_Witness ==
    /\ \E c \in DOMAIN fillLog.calls :
          /\ fillLog.calls[c].signature = SigOf(Order3)
          /\ \A i \in DOMAIN orders : orders[i].signature # SigOf(Order3)
    /\ \E c \in DOMAIN fillLog.calls :
          LET call == fillLog.calls[c]
          IN /\ call.signature = SigOf(Order1)
             /\ call.before[1].signature = SigOf(Order1)
             /\ call.after[1].amount_fill # call.before[1].amount_fill
             /\ call.after[1].state # call.before[1].state
             /\ call.after[1].updated # call.before[1].updated
             /\ call.before[2].signature = SigOf(Order2)

\* ------------------------------------------------------------------------
\* SpecPair: process_trade run twice from the same store and the same chain
\* state, on two Trade events that differ only in amountGive and amountGet
\* ------------------------------------------------------------------------
\* amounts a Trade event may carry
TradeAmounts == {10, 20, 80}

\* the Trade events that differ from event in their amounts at most
AmountVariants(event) ==
    {[event EXCEPT !.args.amountGive = give, !.args.amountGet = get] :
        give \in TradeAmounts, get \in TradeAmounts}

\* the store and the chain's fills the two runs start from; fillLog keeps
\* the store, and the orders table the first run ended with
InitPair ==
    /\ orders \in InitStores
    /\ trades = <<>>
    /\ transfers = <<>>
    /\ orderFills \in {f \in [FillKeys -> Amounts] :
                          \A k \in FillKeys : f[k] >= InitFill(orders, k)}
    /\ latest = MaxBlock - 1
    /\ handlers = [h \in Handlers |-> Idle]
    /\ fillLog = [store |-> orders, run |-> 1, first |-> <<>>]

\* the first run has returned: keep its orders table and put the store back
RestoreStore ==
    /\ fillLog.run = 1
    /\ handlers[1].pc = "done"
    /\ fillLog' = [fillLog EXCEPT !.run = 2, !.first = orders]
    /\ orders' = fillLog.store
    /\ trades' = <<>>
    /\ UNCHANGED <<transfers, orderFills, latest, handlers>>

NextPair ==
    \/ \E event \in {Trade1, Trade2, Trade3} : DeliverTrade(1, event)
    \/ RestoreStore
    \/ /\ fillLog.run = 2
       /\ \E event \in AmountVariants(handlers[1].event) : DeliverTrade(2, event)
    \/ \E h \in 1..2 :
        \/ RtAcquire(h)
        \/ RtInsert(h)
        \/ RtReturn(h)
        \/ FetchAcquire(h)
        \/ Fetch(h)
        \/ FetchReturn(h)
        \/ UfTimestamp(h)
        \/ UfLookup(h)
        \/ UfAcquire(h)
        \/ UfUpdate(h)
        \/ UfRelease(h)

SpecPair == InitPair /\ [][NextPair]_vars

\* C16 (fill re-derivation): the amount process_trade holds for the update
\* of an affected order is the chain's orderFills(maker, signature) of that
\* order, and the second of two runs from the same store and the same chain
\* fills, on Trade events that differ only in amountGive and amountGet, ends
\* with the order rows the first one ended with.
C16_FillRederived ==
    /\ \A h \in 1..2 :
          handlers[h].pc \in {"uf_acquire", "uf_update", "uf_release"} =>
              LET order == handlers[h].affected[handlers[h].idx]
              IN handlers[h].amount_fill = orderFills[<<ToHex(order.user), order.signature>>]
    /\ (fillLog.run = 2 /\ handlers[2].pc = "done") => orders = fillLog.first

\* C16 witness: the two runs were on Trade events with different amountGive
\* and amountGet, both updated an order, the chain's fill differs from both
\* amountGet, and the row changed its amount_fill to the chain's fill.
C16_Witness ==
    /\ fillLog.run = 2 /\ handlers[2].pc = "done"
    /\ handlers[1].event.args.amountGet # handlers[2].event.args.amountGet
    /\ handlers[1].event.args.amountGive # handlers[2].event.args.amountGive
    /\ handlers[1].nWrite > 0 /\ handlers[2].nWrite > 0
    /\ orders[1].amount_fill # fillLog.store[1].amount_fill
    /\ orders[1].amount_fill = orderFills[FillKey(Order1)]
    /\ orders = fillLog.first

\* C17 (provenance of a cancelled order): record_cancel stores source
\* OFFCHAIN when the cancelled order's terms carry a signature component r
\* and ONCHAIN otherwise, and in both cases writes the order: once the
\* handler of a well-formed Cancel event has ended, it has returned and the
\* row with the order's signature has that source and state CANCELED if the
\* handler inserted it.
C17_Provenance ==
    \A h \in Handlers :
        (handlers[h].kind = "Cancel" /\ Terminated(h)
            /\ handlers[h].event \notin MalformedEvents) =>
            LET order == handlers[h].event.args
                sig == HashToBytes(make_order_hash(order))
            IN /\ handlers[h].pc = "done"
               /\ \E i \in RowsWithSignature(orders, sig) :
                     handlers[h].found = "ABSENT" =>
                        /\ orders[i].source = (IF order.r # None THEN "OFFCHAIN" ELSE "ONCHAIN")
                        /\ orders[i].state = "CANCELED"

\* ------------------------------------------------------------------------
\* SpecConn: the handlers of Spec, with store statements that may raise
\* ------------------------------------------------------------------------
\* the statements a handler executes inside an
\* "async with App().db.acquire_connection()" block (lines 55, 80, 111, 158, 208)
StoreStatements == {"rt_insert", "fetch", "uf_update", "tr_insert", "rc_upsert"}

\* connection.execute / fetch raises on the connection held: the table is
\* not written
StoreError(h) ==
    /\ handlers[h].pc \in StoreStatements
    /\ handlers' = [handlers EXCEPT ![h] = [@ EXCEPT !.pc = "unwinding"]]
    /\ UNCHANGED <<orders, trades, transfers, orderFills, latest, fillLog>>

\* the exception leaves the async with block, which releases the
\* connection, and ends the handler
UnwindLeak(h) ==
    /\ handlers[h].pc = "unwinding"
    /\ handlers' = [handlers EXCEPT ![h] = [@ EXCEPT !.pc = "failed"]]
    /\ UNCHANGED <<orders, trades, transfers, orderFills, latest, fillLog>>
Unwind(h) ==
    /\ handlers[h].pc = "unwinding"
    /\ handlers' = [handlers EXCEPT ![h] = [@ EXCEPT !.pc = "failed", !.conn = @ - 1]]
    /\ UNCHANGED <<orders, trades, transfers, orderFills, latest, fillLog>>

NextConn ==
    \/ Next
    \/ \E h \in Handlers : StoreError(h)
    \/ \E h \in Handlers : Unwind(h)

SpecConn == Init /\ [][NextConn]_vars

\* C18 (scoped connections): a handler holds at most one store connection;
\* it holds none once it has ended, by a return or by an exception; and it
\* holds none where its next step is a call to the chain (block_timestamp
\* at the start of the recorders, block_timestamp and orderFills in
\* update_order_fills).
C18_ScopedConnections ==
    \A h \in Handlers :
        /\ handlers[h].conn \in {0, 1}
        /\ Terminated(h) => handlers[h].conn = 0
        /\ handlers[h].pc \in {"idle", "uf_timestamp", "uf_lookup"} => handlers[h].conn = 0

\* C18 witness: the update of the first affected order raised in handler 1
\* after a successful lookup, and the handler ended holding no connection;
\* handler 2 stands before the chain calls of its second affected order,
\* having released the connection of its first update.
C18_Witness ==
    /\ handlers[1].kind = "Trade" /\ handlers[1].pc = "failed"
    /\ handlers[1].nLookup = 1 /\ handlers[1].looked # {} /\ handlers[1].nWrite = 0
    /\ handlers[1].conn = 0
    /\ handlers[2].pc = "uf_timestamp" /\ handlers[2].idx = 2 /\ handlers[2].nWrite = 1
    /\ handlers[2].conn = 0

\* C19 (status/fill consistency): from a store in which every order has
\* amount_fill < amount_get if it is OPEN and amount_fill >= amount_get if it
\* is FILLED or CANCELED, every interleaving of the handlers' applyFill and
\* applyCancel statements keeps both for every order row, the rows a cancel
\* inserted included.
C19_StatusFillConsistent ==
    \A i \in DOMAIN orders :
        /\ orders[i].state = "OPEN" => orders[i].amount_fill < orders[i].amount_get
        /\ orders[i].state \in {"FILLED", "CANCELED"} =>
              orders[i].amount_fill >= orders[i].amount_get

\* C19 witness: a cancel found no row of its order and inserted one, and a
\* fill update wrote a filled amount above the get-amount of Order1.
C19_Witness ==
    /\ \E h \in Handlers :
          /\ handlers[h].kind = "Cancel" /\ handlers[h].found = "ABSENT"
          /\ handlers[h].pc = "done"
          /\ \E i \in RowsWithSignature(orders, handlers[h].row.signature) :
                orders[i].state = "CANCELED" /\ orders[i].amount_fill = orders[i].amount_get
    /\ \E h \in Handlers : handlers[h].kind = "Trade" /\ handlers[h].nWrite > 0
    /\ orders[1].amount_fill > orders[1].amount_get
    /\ orders[1].updated # fromtimestamp(block_timestamp(1))

\* two order tables agree in every column but updated
SameButUpdated(t1, t2) ==
    /\ DOMAIN t1 = DOMAIN t2
    /\ \A i \in DOMAIN t1 :
          \A col \in FrameColumns \cup {"state", "amount_fill"} : t1[i][col] = t2[i][col]

\* C20 (applyFill idempotent and commutative): of two successive applyFill
\* calls on a signature, with amounts a and b, the second changes neither
\* state nor amount_fill if a = b, and the table after both has the state
\* and amount_fill that the calls made in the other order, at other times,
\* give; only the updated column may differ.
C20_IdempotentCommutative ==
    \A c \in DOMAIN fillLog.calls :
        (c > 1 /\ fillLog.calls[c].signature = fillLog.calls[c - 1].signature) =>
            LET first == fillLog.calls[c - 1]
                second == fillLog.calls[c]
                later == fromtimestamp(block_timestamp(latest + 1))
                swapped == UPDATE_ORDER_FILL_STMT(
                               UPDATE_ORDER_FILL_STMT(first.before, second.amount,
                                                      later, first.signature),
                               first.amount, later, first.signature)
            IN /\ first.amount = second.amount => SameButUpdated(second.after, first.after)
               /\ SameButUpdated(second.after, swapped)
               /\ \A i \in DOMAIN swapped :
                     swapped[i].signature = first.signature =>
                        swapped[i].updated # second.after[i].updated

\* C20 witness: three calls on the open Order1: the first changes the row,
\* the second repeats it, the third has a larger amount that fills the order.
C20_Witness ==
    /\ Len(fillLog.calls) = 3
    /\ \A c \in 1..3 : fillLog.calls[c].signature = SigOf(Order1)
    /\ fillLog.init[1].state = "OPEN"
    /\ fillLog.calls[1].amount = fillLog.calls[2].amount
    /\ fillLog.calls[1].after[1].amount_fill # fillLog.calls[1].before[1].amount_fill
    /\ fillLog.calls[3].amount > fillLog.calls[2].amount
    /\ orders[1].state = "FILLED"

====
